---- MODULE Spec2Model ----
(***************************************************************************)
(* A model of easypy/decorations.py: the lazy decorating descriptor, the   *)
(* reusable context-manager proxy, mirror_defaults and                     *)
(* parametrizeable_decorator.  The four utilities share no state; each has *)
(* its own specification over its own variables, the variables of the      *)
(* other utilities staying at their initial values.                        *)
(***************************************************************************)
EXTENDS Integers, Sequences, FiniteSets, TLC

VARIABLES
    \* ---- DecoratingDescriptor / LazyDecoratorDescriptor ----
    cached,        \* self._cached
    seq,           \* TRUE: reads are performed one after another (one caller at a time)
    dict,          \* instance.__dict__[self.__property_name], None when the key is absent
    factoryCalls,  \* number of calls decorator_factory(x), per argument x
    nextObj,       \* identity of the next object a decorator returns
    pc,            \* per thread: the line of __get__ it is about to execute
    inst,          \* per thread: the `instance` argument of __get__
    bound,         \* per thread: the local `bound`
    ret,           \* per thread: the value its last __get__ returned
    writes,        \* per instance: the objects stored by line 88, in order
    returned,      \* per instance: the objects returned by completed reads, in order
    started,       \* number of __get__ calls started
    \* ---- reusable_contextmanager ----
    suppresses,    \* the generator function catches the error thrown at its yield
    res,           \* the context managers made by context_manager._recreate_cm(), in order
    cm,            \* ReusableCtx.cm: index into res, 0 before the first __enter__
    open,          \* the caller's open `with` blocks on the proxy: for each, the
                   \* index of the resource its __enter__ created (innermost last)
    orig,          \* a single-use context manager of the same generator, used directly
    origOpen,      \* TRUE while a `with` block on orig is open
    last,          \* what the last __enter__ / __exit__ did
    \* ---- mirror_defaults ----
    mirrored,      \* the mirrored function: for each name, its default (EMPTY: none)
    target,        \* the parameters of the decorated function, in order
    mdState,       \* "defined": not decorated yet, "wrapped", or "TypeError"
    newSignature,  \* new_signature of outer, also inner.signature
    overrides,     \* defaults_to_override
    errMsg,        \* the text of the TypeError of line 176: <<function, parameter>>
    callArgs,      \* the positional arguments of the last call of inner
    callKwargs,    \* the keyword arguments of the last call of inner
    callResult,    \* what the last call of inner did
    \* ---- parametrizeable_decorator ----
    decoKeeps,     \* deco itself copies the metadata of func to what it returns
    partials,      \* the partial(deco, **kwargs) objects inner has returned
    results        \* the decorated results produced so far

lazyVars == <<cached, seq, dict, factoryCalls, nextObj, pc, inst, bound, ret, writes, returned, started>>

ctxVars == <<suppresses, res, cm, open, orig, origOpen, last>>

mirrorVars == <<mirrored, target, mdState, newSignature, overrides, errMsg, callArgs, callKwargs, callResult>>

paramVars == <<decoKeeps, partials, results>>

vars == <<lazyVars, ctxVars, mirrorVars, paramVars>>

notLazy == <<ctxVars, mirrorVars, paramVars>>
notCtx == <<lazyVars, mirrorVars, paramVars>>
notMirror == <<lazyVars, ctxVars, paramVars>>
notParam == <<lazyVars, ctxVars, mirrorVars>>

\* ------------------------------------------------------------------------
\* Bounds
MaxReads == 4
MaxCycles == 3
MaxDepth == 2
MaxPos == 2

\* ------------------------------------------------------------------------
\* Values
None == <<"None">>
PLAIN == <<"plain">>
Threads == {"t1", "t2"}
Instances == {"i1", "i2"}
NoInstance == "None"

\* The object decorator(method) returns for instance i: a new object each time.
Decorated(i, n) == <<"decorated", i, n>>

\* ========================================================================
\* DecoratingDescriptor.__get__, one step per line that touches shared state
\* ========================================================================

LazyStart ==
    /\ dict = [i \in Instances |-> None]
    /\ factoryCalls = [i \in Instances \cup {NoInstance} |-> 0]
    /\ nextObj = 1
    /\ pc = [t \in Threads |-> "idle"]
    /\ inst = [t \in Threads |-> NoInstance]
    /\ bound = [t \in Threads |-> None]
    /\ ret = [t \in Threads |-> None]
    /\ writes = [i \in Instances |-> <<>>]
    /\ returned = [i \in Instances |-> <<>>]
    /\ started = 0

LazyInit == cached \in BOOLEAN /\ seq \in BOOLEAN /\ LazyStart

\* A caller reads the attribute: through instance i, or through the class
\* (i = NoInstance).  With seq, a read starts only when no other is in progress.
Call(t, i) ==
    /\ pc[t] = "idle"
    /\ started < MaxReads
    /\ seq => \A u \in Threads : pc[u] = "idle"
    /\ started' = started + 1
    /\ inst' = [inst EXCEPT ![t] = i]
    /\ bound' = [bound EXCEPT ![t] = None]
    /\ ret' = [ret EXCEPT ![t] = None]
    /\ pc' = [pc EXCEPT ![t] = "L79"]
    /\ UNCHANGED <<cached, seq, dict, factoryCalls, nextObj, writes, returned, notLazy>>

\* The same as BindMethod, without the test of line 80.
BindMethodNoClassCheck(t) ==
    /\ pc[t] = "L79"
    /\ pc' = [pc EXCEPT ![t] = IF cached /\ inst[t] # NoInstance THEN "L85" ELSE "L91"]
    /\ UNCHANGED <<cached, seq, dict, factoryCalls, nextObj, inst, bound, ret, writes, returned, started, notLazy>>

\* Lines 79-83: bind the function; through the class, return the plain method.
BindMethod(t) ==
    /\ pc[t] = "L79"
    /\ IF inst[t] = NoInstance
       THEN /\ ret' = [ret EXCEPT ![t] = PLAIN]
            /\ pc' = [pc EXCEPT ![t] = "idle"]
       ELSE /\ ret' = ret
            /\ pc' = [pc EXCEPT ![t] = IF cached THEN "L85" ELSE "L91"]
    /\ UNCHANGED <<cached, seq, dict, factoryCalls, nextObj, inst, bound, writes, returned, started, notLazy>>

\* The same as Lookup, never finding the key.
LookupAlwaysMiss(t) ==
    /\ pc[t] = "L85"
    /\ pc' = [pc EXCEPT ![t] = "L87"]
    /\ UNCHANGED <<cached, seq, dict, factoryCalls, nextObj, inst, bound, ret, writes, returned, started, notLazy>>

\* Lines 84-86: return the stored object, or KeyError.
Lookup(t) ==
    /\ pc[t] = "L85"
    /\ IF dict[inst[t]] # None
       THEN /\ ret' = [ret EXCEPT ![t] = dict[inst[t]]]
            /\ returned' = [returned EXCEPT ![inst[t]] = Append(@, dict[inst[t]])]
            /\ pc' = [pc EXCEPT ![t] = "idle"]
       ELSE /\ ret' = ret
            /\ returned' = returned
            /\ pc' = [pc EXCEPT ![t] = "L87"]
    /\ UNCHANGED <<cached, seq, dict, factoryCalls, nextObj, inst, bound, writes, started, notLazy>>

\* Line 87 with LazyDecoratorDescriptor._decorate (lines 99-101).
Decorate(t) ==
    /\ pc[t] = "L87"
    /\ factoryCalls' = [factoryCalls EXCEPT ![inst[t]] = @ + 1]
    /\ bound' = [bound EXCEPT ![t] = Decorated(inst[t], nextObj)]
    /\ nextObj' = nextObj + 1
    /\ pc' = [pc EXCEPT ![t] = "L88"]
    /\ UNCHANGED <<cached, seq, dict, inst, ret, writes, returned, started, notLazy>>

\* The same as Store, keeping an entry that is already there.
StoreIfAbsent(t) ==
    /\ pc[t] = "L88"
    /\ dict' = [dict EXCEPT ![inst[t]] = IF @ = None THEN bound[t] ELSE @]
    /\ writes' = [writes EXCEPT ![inst[t]] = Append(@, bound[t])]
    /\ pc' = [pc EXCEPT ![t] = "L89"]
    /\ UNCHANGED <<cached, seq, factoryCalls, nextObj, inst, bound, ret, returned, started, notLazy>>

\* Line 88: instance.__dict__[self.__property_name] = bound
Store(t) ==
    /\ pc[t] = "L88"
    /\ dict' = [dict EXCEPT ![inst[t]] = bound[t]]
    /\ writes' = [writes EXCEPT ![inst[t]] = Append(@, bound[t])]
    /\ pc' = [pc EXCEPT ![t] = "L89"]
    /\ UNCHANGED <<cached, seq, factoryCalls, nextObj, inst, bound, ret, returned, started, notLazy>>

\* Line 89: return bound
ReturnBound(t) ==
    /\ pc[t] = "L89"
    /\ ret' = [ret EXCEPT ![t] = bound[t]]
    /\ returned' = [returned EXCEPT ![inst[t]] = Append(@, bound[t])]
    /\ pc' = [pc EXCEPT ![t] = "idle"]
    /\ UNCHANGED <<cached, seq, dict, factoryCalls, nextObj, inst, bound, writes, started, notLazy>>

\* Line 91 with _decorate (lines 99-101): nothing is stored.
DecorateUncached(t) ==
    /\ pc[t] = "L91"
    /\ factoryCalls' = [factoryCalls EXCEPT ![inst[t]] = @ + 1]
    /\ ret' = [ret EXCEPT ![t] = Decorated(inst[t], nextObj)]
    /\ returned' = IF inst[t] \in Instances
                   THEN [returned EXCEPT ![inst[t]] = Append(@, Decorated(inst[t], nextObj))]
                   ELSE returned
    /\ nextObj' = nextObj + 1
    /\ pc' = [pc EXCEPT ![t] = "idle"]
    /\ UNCHANGED <<cached, seq, dict, inst, bound, writes, started, notLazy>>

LazyNext ==
    \/ \E t \in Threads, i \in Instances \cup {NoInstance} : Call(t, i)
    \/ \E t \in Threads : BindMethod(t)
    \/ \E t \in Threads : Lookup(t)
    \/ \E t \in Threads : Decorate(t)
    \/ \E t \in Threads : Store(t)
    \/ \E t \in Threads : ReturnBound(t)
    \/ \E t \in Threads : DecorateUncached(t)

\* ========================================================================
\* reusable_contextmanager: the ReusableCtx proxy over a generator-based
\* context manager (one that has _recreate_cm)
\* ========================================================================

NoExc == "NoExc"
Excs == {NoExc, "Error"}

\* A generator-based context manager right after _recreate_cm(): its
\* generator has not started.
FreshCm == [state |-> "fresh", enters |-> 0, exits |-> 0]

NoOp == [op |-> "none", ok |-> TRUE, target |-> 0, matching |-> 0, exc |-> NoExc,
         underlying |-> FALSE, proxy |-> FALSE]

\* cm.__enter__() of a generator-based context manager.  It succeeds only on
\* one whose generator has not started; entering it again raises and leaves
\* it as it was.
GenEnter(r) ==
    IF r.state = "fresh"
    THEN [r |-> [r EXCEPT !.state = "entered", !.enters = @ + 1], ok |-> TRUE]
    ELSE [r |-> [r EXCEPT !.enters = @ + 1], ok |-> FALSE]

\* cm.__exit__(*args) of a generator-based context manager: the generator is
\* resumed (or the error thrown into it) and runs to its end.  The result is
\* true, suppressing the error, exactly when an error was thrown into a
\* generator suspended at its yield and the generator caught it.
GenExit(r, exc) ==
    [r |-> [r EXCEPT !.state = "exited", !.exits = @ + 1],
     result |-> (exc # NoExc /\ r.state = "entered" /\ suppresses)]

CtxStart ==
    /\ res = <<>>
    /\ cm = 0
    /\ open = <<>>
    /\ orig = FreshCm
    /\ origOpen = FALSE
    /\ last = NoOp

CtxInit == suppresses \in BOOLEAN /\ CtxStart

\* The same as ProxyEnter, recreating the context manager only the first time.
ProxyEnterNoRecreate ==
    /\ Len(res) < MaxCycles
    /\ Len(open) < MaxDepth
    /\ LET idx == IF cm = 0 THEN Len(res) + 1 ELSE cm
           old == IF cm = 0 THEN FreshCm ELSE res[cm]
           e == GenEnter(old)
       IN  /\ cm' = idx
           /\ res' = IF cm = 0 THEN Append(res, e.r) ELSE [res EXCEPT ![cm] = e.r]
           /\ open' = IF e.ok THEN Append(open, idx) ELSE open
           /\ last' = [NoOp EXCEPT !.op = "enter", !.ok = e.ok, !.target = idx]
    /\ UNCHANGED <<suppresses, orig, origOpen, notCtx>>

\* ReusableCtx.__enter__ (lines 39-41).  When __enter__ raises, the caller's
\* `with` block is not opened.
ProxyEnter ==
    /\ Len(res) < MaxCycles
    /\ Len(open) < MaxDepth
    /\ LET idx == Len(res) + 1
           e == GenEnter(FreshCm)
       IN  /\ cm' = idx
           /\ res' = Append(res, e.r)
           /\ open' = IF e.ok THEN Append(open, idx) ELSE open
           /\ last' = [NoOp EXCEPT !.op = "enter", !.ok = e.ok, !.target = idx]
    /\ UNCHANGED <<suppresses, orig, origOpen, notCtx>>

\* ReusableCtx.__exit__ (lines 43-44), called when the innermost open `with`
\* block on the proxy ends, normally or with an error.  The method has no
\* return statement: its result is None, which is false.
ProxyExit(exc) ==
    /\ open # <<>>
    /\ LET x == GenExit(res[cm], exc)
       IN  /\ res' = [res EXCEPT ![cm] = x.r]
           /\ last' = [op |-> "exit", ok |-> TRUE, target |-> cm,
                       matching |-> open[Len(open)], exc |-> exc,
                       underlying |-> x.result, proxy |-> FALSE]
    /\ open' = SubSeq(open, 1, Len(open) - 1)
    /\ UNCHANGED <<suppresses, cm, orig, origOpen, notCtx>>

\* `with orig:` on the single-use context manager itself.
OrigEnter ==
    /\ orig.enters < MaxCycles
    /\ ~origOpen
    /\ LET e == GenEnter(orig)
       IN  /\ orig' = e.r
           /\ origOpen' = e.ok
           /\ last' = [NoOp EXCEPT !.op = "origEnter", !.ok = e.ok]
    /\ UNCHANGED <<suppresses, res, cm, open, notCtx>>

OrigExit(exc) ==
    /\ origOpen
    /\ LET x == GenExit(orig, exc)
       IN  /\ orig' = x.r
           /\ last' = [NoOp EXCEPT !.op = "origExit", !.exc = exc,
                                   !.underlying = x.result, !.proxy = x.result]
    /\ origOpen' = FALSE
    /\ UNCHANGED <<suppresses, res, cm, open, notCtx>>

CtxNext ==
    \/ ProxyEnter
    \/ \E exc \in Excs : ProxyExit(exc)
    \/ OrigEnter
    \/ \E exc \in Excs : OrigExit(exc)

\* ========================================================================
\* mirror_defaults
\* ========================================================================

AUTO == "AUTO"          \* easypy.tokens.AUTO
EMPTY == "<empty>"      \* inspect._empty: the parameter has no default
ABSENT == "<absent>"    \* the name is no key of the dict

ParamNames == <<"a", "b", "c">>
Names == {ParamNames[j] : j \in 1..Len(ParamNames)}

\* The defaults of the functions, as in the example of the docstring:
\* foo(a=1, b=2, c=3) and bar(..., b=4, ...).
MirroredValue == [n \in Names |-> CASE n = "a" -> "1" [] n = "b" -> "2" [] n = "c" -> "3"]
OwnValue == "4"
MirroredName == "foo"   \* mirrored.__name__

\* What a caller passes: the j-th positional argument, the keyword argument n.
PosValue(j) == <<"p1", "p2", "p3", "p4">>[j]
KwValue == [n \in Names |-> CASE n = "a" -> "ka" [] n = "b" -> "kb" [] n = "c" -> "kc"]

POK == "POSITIONAL_OR_KEYWORD"
KWO == "KEYWORD_ONLY"

Param(n, d, k) == [name |-> n, default |-> d, kind |-> k]

\* The signatures a Python function with parameters a, b, c can have: the
\* keyword-only parameters last, and among the others no parameter without
\* a default after one with a default.
Signatures ==
    {sig \in [1..Len(ParamNames) -> [name : Names, default : {EMPTY, AUTO, OwnValue}, kind : {POK, KWO}]] :
        /\ \A j \in 1..Len(ParamNames) : sig[j].name = ParamNames[j]
        /\ \A j \in 1..(Len(ParamNames) - 1) : sig[j].kind = KWO => sig[j + 1].kind = KWO
        /\ sig[1].kind = POK /\ sig[2].kind = POK
        /\ \A j \in 1..(Len(ParamNames) - 1) :
              (sig[j].default # EMPTY /\ sig[j + 1].kind = POK) => sig[j + 1].default # EMPTY}

\* Lines 165-168: the defaults of the mirrored function, by name.
defaults == [n \in Names |-> IF mirrored[n] = EMPTY THEN ABSENT ELSE mirrored[n]]

\* The same as FirstMissing, finding none.
FirstMissingNone(params) == 0

\* Lines 171-176: the first AUTO parameter whose name is no key of defaults
\* (0: none); the generator raises TypeError when it reaches it.
FirstMissing(params) ==
    LET bad == {j \in 1..Len(params) : params[j].default = AUTO /\ defaults[params[j].name] = ABSENT}
    IN  IF bad = {} THEN 0 ELSE CHOOSE j \in bad : \A k \in bad : j <= k

\* The same as NewParam, yielding the parameter as it is.
NewParamUnreplaced(param) == param

\* Lines 172-180: what the generator yields for one parameter.
NewParam(param) ==
    IF param.default = AUTO
    THEN [param EXCEPT !.default = defaults[param.name]]
    ELSE param

\* Line 177: the names added to defaults_to_override.
Overridden(params) == {params[j].name : j \in {k \in 1..Len(params) : params[k].default = AUTO}}

\* inspect.Signature.bind as line 190 calls it: positional arguments go to
\* the positional-or-keyword parameters in order, keyword arguments by
\* name; arguments holds the parameters the caller supplied, no defaults.
SignatureBind(sig, args, kwargs) ==
    LET nPok == Cardinality({j \in 1..Len(sig) : sig[j].kind = POK})
        tooMany == Len(args) > nPok
        twice == \E j \in 1..Len(sig) : j <= Len(args) /\ kwargs[sig[j].name] # ABSENT
        missing == \E j \in 1..Len(sig) :
                      j > Len(args) /\ kwargs[sig[j].name] = ABSENT /\ sig[j].default = EMPTY
        index == [n \in Names |-> CHOOSE j \in 1..Len(sig) : sig[j].name = n]
    IN  [ok |-> ~(tooMany \/ twice \/ missing),
         arguments |-> [n \in Names |-> IF index[n] <= Len(args)
                                        THEN args[index[n]]
                                        ELSE kwargs[n]]]

\* BoundArguments.args / .kwargs as line 196 reads them: the leading
\* positional-or-keyword parameters present in arguments are passed
\* positionally, the present ones from the first gap on by keyword.
SplitAt(sig, arguments) ==
    LET stop == {j \in 1..Len(sig) : sig[j].kind = KWO \/ arguments[sig[j].name] = ABSENT}
    IN  IF stop = {} THEN Len(sig) + 1 ELSE CHOOSE j \in stop : \A k \in stop : j <= k

BoundArgs(sig, arguments) ==
    [j \in 1..(SplitAt(sig, arguments) - 1) |-> arguments[sig[j].name]]

BoundKwargs(sig, arguments) ==
    LET index == [n \in Names |-> CHOOSE j \in 1..Len(sig) : sig[j].name = n]
    IN  [n \in Names |-> IF index[n] >= SplitAt(sig, arguments) THEN arguments[n] ELSE ABSENT]

\* The call func(*args, **kwargs) of line 196: each parameter of the original
\* function receives the argument passed for it, by position or by keyword,
\* or the function's own default.
FuncCall(params, args, kwargs) ==
    LET index == [n \in Names |-> CHOOSE j \in 1..Len(params) : params[j].name = n]
    IN  [n \in Names |-> IF index[n] <= Len(args) THEN args[index[n]]
                         ELSE IF kwargs[n] # ABSENT THEN kwargs[n]
                         ELSE params[index[n]].default]

\* The same as Inject, adding nothing to the binding.
InjectNothing(arguments) == arguments

\* Lines 193-194: the mirrored default for each overridden name the caller
\* did not supply.
Inject(arguments) ==
    [n \in Names |-> IF n \in overrides /\ arguments[n] = ABSENT THEN defaults[n] ELSE arguments[n]]

NoCall == [status |-> "none", received |-> [n \in Names |-> ABSENT]]

MirrorStart ==
    /\ mdState = "defined"
    /\ newSignature = <<>>
    /\ overrides = {}
    /\ errMsg = <<>>
    /\ callArgs = <<>>
    /\ callKwargs = [n \in Names |-> ABSENT]
    /\ callResult = NoCall

\* The mirrored function gives each name no default, its value, or AUTO.
MirroredFunctions ==
    {m \in [Names -> {EMPTY, AUTO} \cup {MirroredValue[n] : n \in Names}] :
        \A n \in Names : m[n] \in {EMPTY, AUTO, MirroredValue[n]}}

MirrorInit == mirrored \in MirroredFunctions /\ target \in Signatures /\ MirrorStart

\* outer(func), lines 182-199: the decorator applied to the target.  The
\* generator is consumed by Signature.replace, line 186.
Outer ==
    /\ mdState = "defined"
    /\ LET bad == FirstMissing(target)
       IN  IF bad # 0
           THEN /\ mdState' = "TypeError"
                /\ errMsg' = <<MirroredName, target[bad].name>>
                /\ UNCHANGED <<newSignature, overrides, notMirror>>
           ELSE /\ mdState' = "wrapped"
                /\ newSignature' = [j \in 1..Len(target) |-> NewParam(target[j])]
                /\ overrides' = Overridden(target)
                /\ errMsg' = errMsg
    /\ UNCHANGED <<mirrored, target, callArgs, callKwargs, callResult, notMirror>>

\* inner(*args, **kwargs), lines 189-196: a call of the wrapped function.
\* inner keeps nothing from one call to the next, so a behaviour makes one call.
Inner(args, kwargs) ==
    /\ mdState = "wrapped"
    /\ callResult = NoCall
    /\ callArgs' = args
    /\ callKwargs' = kwargs
    /\ LET binding == SignatureBind(newSignature, args, kwargs)
           arguments == Inject(binding.arguments)
       IN  callResult' =
              IF binding.ok
              THEN [status |-> "called",
                    received |-> FuncCall(target, BoundArgs(newSignature, arguments),
                                          BoundKwargs(newSignature, arguments))]
              ELSE [NoCall EXCEPT !.status = "TypeError"]
    /\ UNCHANGED <<mirrored, target, mdState, newSignature, overrides, errMsg, notMirror>>

\* The calls a caller makes: up to MaxPos positional arguments, and for each
\* name no keyword argument, a value, or AUTO itself.
CallKwargs == {kw \in [Names -> {ABSENT, AUTO} \cup {KwValue[n] : n \in Names}] :
                  \A n \in Names : kw[n] \in {ABSENT, AUTO, KwValue[n]}}

MirrorNext ==
    \/ Outer
    \/ \E k \in 0..MaxPos, kw \in CallKwargs : Inner([j \in 1..k |-> PosValue(j)], kw)

\* ========================================================================
\* parametrizeable_decorator
\* ========================================================================

Funcs == {"f", "g"}
Options == {"{}", "{x=1}", "{x=2}"}     \* the keyword arguments **kwargs
WrapperName == "wrapper"               \* the name of what deco returns

\* deco(func, **kwargs): the call made, and the metadata of what it returns.
Deco(func, kwargs) ==
    [call |-> <<func, kwargs>>,
     name |-> IF decoKeeps THEN func ELSE WrapperName,
     wrapped |-> IF decoKeeps THEN func ELSE "None"]

\* functools.wraps(func)(result): the metadata of func copied onto result.
Wraps(func, result) == [result EXCEPT !.name = func, !.wrapped = func]

ParamStart ==
    /\ partials = {}
    /\ results = {}

ParamInit == decoKeeps \in BOOLEAN /\ ParamStart

\* inner(func, **kwargs) with a function, line 19: @deco_wrapped, or
\* deco_wrapped(f, **opts).
InnerWithFunc(func, kwargs) ==
    /\ results' = results \cup {[path |-> "direct", result |-> Wraps(func, Deco(func, kwargs))]}
    /\ UNCHANGED <<decoKeeps, partials, notParam>>

\* inner(**kwargs) without a function, line 17: @deco_wrapped(**opts).
InnerNoFunc(kwargs) ==
    /\ partials' = partials \cup {kwargs}
    /\ UNCHANGED <<decoKeeps, results, notParam>>

\* The partial of line 17 applied to the function: deco(func, **kwargs).
PartialCall(kwargs, func) ==
    /\ kwargs \in partials
    /\ results' = results \cup {[path |-> "partial", result |-> Deco(func, kwargs)]}
    /\ UNCHANGED <<decoKeeps, partials, notParam>>

ParamNext ==
    \/ \E func \in Funcs, kwargs \in Options : InnerWithFunc(func, kwargs)
    \/ \E kwargs \in Options : InnerNoFunc(kwargs)
    \/ \E kwargs \in Options, func \in Funcs : PartialCall(kwargs, func)

\* ========================================================================
\* Specifications
\* ========================================================================

\* The utilities a specification leaves unused stay in these states.
LazyIdle == seq = TRUE /\ cached = FALSE /\ LazyStart
CtxIdle == suppresses = FALSE /\ CtxStart
MirrorIdle ==
    /\ mirrored = MirroredValue
    /\ target = [j \in 1..Len(ParamNames) |-> Param(ParamNames[j], EMPTY, POK)]
    /\ MirrorStart
ParamIdle == decoKeeps = FALSE /\ ParamStart

\* Reads of the lazy attribute, one caller at a time.
InitLazySeq == cached \in BOOLEAN /\ seq = TRUE /\ LazyStart /\ CtxIdle /\ MirrorIdle /\ ParamIdle
SpecLazySeq == InitLazySeq /\ [][LazyNext]_vars

\* Reads of the lazy attribute by two threads, interleaved line by line.
InitLazy == cached \in BOOLEAN /\ seq = FALSE /\ LazyStart /\ CtxIdle /\ MirrorIdle /\ ParamIdle
SpecLazy == InitLazy /\ [][LazyNext]_vars

\* Enters and exits of the reusable proxy and of a single-use context manager.
InitCtx == CtxInit /\ LazyIdle /\ MirrorIdle /\ ParamIdle
SpecCtx == InitCtx /\ [][CtxNext]_vars

\* Decoration by mirror_defaults(mirrored) and calls of the wrapped function.
InitMirror == MirrorInit /\ LazyIdle /\ CtxIdle /\ ParamIdle
SpecMirror == InitMirror /\ [][MirrorNext]_vars

\* Uses of a decorator made by parametrizeable_decorator.
InitParam == ParamInit /\ LazyIdle /\ CtxIdle /\ MirrorIdle
SpecParam == InitParam /\ [][ParamNext]_vars

\* ------------------------------------------------------------------------
\* Properties of the lazy decorating descriptor

Last(s) == s[Len(s)]

\* C1: reads of one instance performed one after another.  With cached=True
\* the decorator factory is called exactly once for the instance, by the
\* first read, and every read returns the object the first read returned.
\* With cached=False the factory is called once per read (n reads, n calls,
\* n different objects) and nothing is stored on the instance.
C1_CachedOnceUncachedPerRead ==
    \A i \in Instances :
        /\ cached =>
            /\ factoryCalls[i] <= 1
            /\ Len(returned[i]) >= 1 =>
                /\ factoryCalls[i] = 1
                /\ \A k \in 1..Len(returned[i]) : returned[i][k] = returned[i][1]
        /\ ~cached =>
            /\ dict[i] = None
            /\ writes[i] = <<>>
            /\ factoryCalls[i] = Len(returned[i])
            /\ \A k, l \in 1..Len(returned[i]) : k # l => returned[i][k] # returned[i][l]

C1_Witness ==
    /\ seq
    /\ cached
    /\ Len(returned["i1"]) = 3
    /\ factoryCalls["i1"] = 1
    /\ returned["i1"][3] = returned["i1"][1]

EntryIsLastWrite ==
    \A i \in Instances :
        /\ Len(writes[i]) <= factoryCalls[i]
        /\ dict[i] = IF writes[i] = <<>> THEN None ELSE Last(writes[i])

\* A read whose lookup finds an entry returns it and calls no factory.
HitReturnsEntry ==
    \A t \in Threads :
        (pc[t] = "L85" /\ pc'[t] # "L85" /\ dict[inst[t]] # None) =>
            /\ pc'[t] = "idle"
            /\ ret'[t] = dict[inst[t]]
            /\ factoryCalls' = factoryCalls
            /\ dict' = dict

\* C8: with cached=True and no lock, the entry in the instance's storage is
\* always that of the last write, and every read whose lookup finds an entry
\* (so every read that starts after the writes completed) returns that entry
\* without calling the factory.  Two concurrent first reads can both miss,
\* both call the factory and return different objects: C8_Witness.
C8_RaceLastWriteWins == [](EntryIsLastWrite) /\ [][HitReturnsEntry]_vars

C8_Witness ==
    /\ cached
    /\ ~seq
    /\ factoryCalls["i1"] = 2
    /\ Len(writes["i1"]) = 2
    /\ Len(returned["i1"]) = 3
    /\ returned["i1"][1] # returned["i1"][2]
    /\ returned["i1"][3] = Last(writes["i1"])
    /\ dict["i1"] = Last(writes["i1"])
    /\ \A t \in Threads : pc[t] = "idle"

\* ------------------------------------------------------------------------
\* Properties of the reusable proxy

IsProxyEnter == Len(res') = Len(res) + 1
IsProxyExit == Len(open') = Len(open) - 1

\* Every underlying context manager is entered once, when it is created.
NoneEnteredTwice ==
    /\ \A k \in 1..Len(res) : res[k].enters = 1
    /\ \A k \in 1..Len(open) : res[open[k]].state # "fresh"

\* An enter with no block open, the exit of the block it opened, and an enter
\* of the single-use context manager.
CycleStep ==
    /\ (IsProxyEnter /\ open = <<>>) =>
          /\ last'.ok
          /\ cm' = Len(res) + 1
          /\ open' = <<cm'>>
          /\ res'[cm'] = [state |-> "entered", enters |-> 1, exits |-> 0]
          /\ \A k \in 1..Len(res) : res'[k] = res[k]
    /\ (IsProxyExit /\ open = <<Len(res)>>) =>
          /\ last'.ok
          /\ last'.target = open[1]
          /\ res'[open[1]] = [state |-> "exited", enters |-> 1, exits |-> 1]
          /\ \A k \in 1..Len(res) : k # open[1] => res'[k] = res[k]
    /\ (orig'.enters = orig.enters + 1) => (last'.ok <=> orig.enters = 0)

\* C2: enter/exit cycles of the proxy performed one after another all
\* succeed; each enter recreates a new underlying context manager and enters
\* it, the exit that follows is delegated to that same one, no underlying
\* context manager is entered twice and the earlier ones are left as they
\* were.  A second enter of a single-use context manager fails.
C2_SequentialCyclesSucceed == [](NoneEnteredTwice) /\ [][CycleStep]_vars

C2_Witness ==
    /\ Len(res) = 3
    /\ open = <<>>
    /\ \A k \in 1..Len(res) : res[k] = [state |-> "exited", enters |-> 1, exits |-> 1]
    /\ orig.enters = 2
    /\ last.op = "origEnter"
    /\ ~last.ok

\* C9 (the claim as stated): exit through the proxy reports the result of the
\* underlying exit, so an error raised in the body is suppressed through the
\* proxy exactly when the underlying exit suppresses it.
C9_ExitResultDelegated ==
    last.op = "exit" => (last.proxy <=> last.underlying)

\* C10 (the claim as stated): in any well-nested sequence of enters and exits
\* of one proxy, each exit is delegated to the context manager its matching
\* enter created, and once every block is closed every context manager that
\* was entered has been exited exactly once.
C10_ExitMatchesEnter ==
    /\ last.op = "exit" => last.target = last.matching
    /\ open = <<>> => \A k \in 1..Len(res) : res[k].exits = 1

\* ------------------------------------------------------------------------
\* Properties of mirror_defaults

IndexOf(n) == CHOOSE j \in 1..Len(target) : target[j].name = n
Supplied(n) == IndexOf(n) <= Len(callArgs) \/ callKwargs[n] # ABSENT
CallerValue(n) == IF IndexOf(n) <= Len(callArgs) THEN callArgs[IndexOf(n)] ELSE callKwargs[n]
AutoMarked(n) == target[IndexOf(n)].default = AUTO

\* What the claim says the original function receives for parameter n.
Expected(n) ==
    IF Supplied(n) THEN CallerValue(n)
    ELSE IF AutoMarked(n) THEN mirrored[n]
    ELSE target[IndexOf(n)].default

ReceivesExpected ==
    callResult.status = "called" => \A n \in Names : callResult.received[n] = Expected(n)

\* C3 (the claim as stated): every call that binds passes the caller's value
\* for each supplied parameter, the mirrored default for each AUTO-marked
\* parameter not supplied and the target's own default for the others, and
\* the target never receives AUTO for an AUTO-marked parameter.
C3_NeverReceivesAuto ==
    /\ ReceivesExpected
    /\ callResult.status = "called" =>
          \A n \in Names : AutoMarked(n) => callResult.received[n] # AUTO

\* C3 (amended): as above, but the target receives AUTO for an AUTO-marked
\* parameter exactly when the caller passed AUTO for it, or did not supply
\* it and the mirrored function's own default for it is AUTO.
C3_ReceivesResolvedArguments ==
    /\ ReceivesExpected
    /\ callResult.status = "called" =>
          \A n \in Names : AutoMarked(n) =>
              (callResult.received[n] = AUTO <=>
                  \/ Supplied(n) /\ CallerValue(n) = AUTO
                  \/ ~Supplied(n) /\ mirrored[n] = AUTO)

\* foo(a=1, b=2, c=3) mirrored onto bar(a=AUTO, b=4, c=AUTO); bar() -> 1 4 3
C3_Witness ==
    /\ mirrored = MirroredValue
    /\ \A j \in 1..Len(target) :
          target[j] = Param(ParamNames[j], IF ParamNames[j] = "b" THEN OwnValue ELSE AUTO, POK)
    /\ callResult.status = "called"
    /\ callArgs = <<>>
    /\ \A n \in Names : callKwargs[n] = ABSENT
    /\ callResult.received = [n \in Names |-> IF n = "b" THEN "4" ELSE MirroredValue[n]]

MissingDefault(j) == target[j].default = AUTO /\ mirrored[target[j].name] = EMPTY

\* C4: when some AUTO-marked parameter has no default on the mirrored
\* function, applying the decorator raises TypeError, naming the mirrored
\* function and such a parameter; no wrapped function is produced and none is
\* ever called.  When every AUTO-marked parameter has a mirrored default,
\* decoration raises nothing.
C4_MissingDefaultRaisesAtDecoration ==
    mdState # "defined" =>
        IF \E j \in 1..Len(target) : MissingDefault(j)
        THEN /\ mdState = "TypeError"
             /\ Len(errMsg) = 2
             /\ errMsg[1] = MirroredName
             /\ \E j \in 1..Len(target) : MissingDefault(j) /\ errMsg[2] = target[j].name
             /\ newSignature = <<>>
             /\ callResult = NoCall
        ELSE /\ mdState = "wrapped"
             /\ errMsg = <<>>
             /\ Len(newSignature) = Len(target)

C4_Witness ==
    /\ mdState = "TypeError"
    /\ target[1].default = AUTO /\ mirrored["a"] # EMPTY
    /\ target[3].default = AUTO /\ mirrored["c"] = EMPTY
    /\ errMsg = <<MirroredName, "c">>

\* The signature the claim describes, from the target and the mirrored function.
DeclaredSignature ==
    [j \in 1..Len(target) |->
        Param(target[j].name,
              IF target[j].default = AUTO THEN mirrored[target[j].name] ELSE target[j].default,
              target[j].kind)]

SignatureMirrorsDefaults ==
    mdState = "wrapped" =>
        /\ newSignature = DeclaredSignature
        /\ callResult.status # "none" =>
              (callResult.status = "called" <=>
                  SignatureBind(DeclaredSignature, callArgs, callKwargs).ok)

C5_PathsEquivalent ==
    \A r1, r2 \in results : r1.result.call = r2.result.call => r1.result = r2.result

====
